---- MODULE Spec2Model ----
(***************************************************************************)
(* A model of sesh: the recency cache (internal/cache/recent.go), the      *)
(* frecency ranking (internal/finder/finder.go, internal/zoxide/zoxide.go),*)
(* the tmux session lifecycle (internal/tmux/session.go), the picker       *)
(* (internal/ui) and the entry points of main.go.                          *)
(*                                                                         *)
(* Nine specifications share the variables:                                *)
(*   SpecCache    Load / Add / Save over any content of recent.json        *)
(*   SpecFresh    the same operations starting with no recent.json         *)
(*   SpecRank     applyFrecencyScores over a snapshot of oracle and cache  *)
(*   SpecSession  GetOrCreateSession, one tmux command per step            *)
(*   SpecMain     one sesh process: picker, connect <name> or switch       *)
(*   SpecSanitize SanitizeSessionName over bounded names                   *)
(*   SpecPicker   the picker's Update, one key or window size per step     *)
(*   SpecShared   two sesh processes recording in one recent.json          *)
(*   SpecConnect  the name resolution of connect <name>                    *)
(***************************************************************************)
EXTENDS Integers, Sequences, FiniteSets, TLC

VARIABLES
    file,       \* ~/.cache/sesh/recent.json as it is on disk
    recent,     \* the *RecentProjects the last Load returned
    loadErr,    \* the error the last Load returned
    hist,       \* the last cache operation and the Projects slice before it
    nops,       \* cache operations executed so far
    oracle,     \* what the zoxide binary is and prints
    ranked,     \* the slice the last applyFrecencyScores returned
    tmuxInstalled,  \* whether a tmux binary is on PATH
    sessions,   \* the sessions of the tmux server, by name
    clients,    \* the session each tmux client shows
    pc,         \* where each invocation of GetOrCreateSession is
    inv,        \* each invocation's project, environment and outcome
    started,    \* the invocations in the order they began
    faults,     \* tmux commands that failed for a reason of their own
    args,       \* the command line of the sesh process: entry point and name
    env,        \* its environment: TMUX and SESH_TARGET_CLIENT
    step,       \* where run() is
    selected,   \* the project or session the selector or the name gave
    trace,      \* what run() has done so far, in order
    offered,    \* the slice run() passes to the selector or resolves in
    visits,     \* the paths `zoxide add` was run with
    result,     \* what run() returned
    rawName,    \* a project name given to SanitizeSessionName
    cleanName,  \* what SanitizeSessionName returned for it
    cleanTwice, \* what SanitizeSessionName returned for that result
    given,      \* the slice SelectProject was called with
    picker,     \* the model of the picker: the fields of ui.model
    last,       \* the last message Update handled, and the cursor before it
    writers,    \* two sesh processes recording their project: step and cache
    saves       \* the processes whose Save wrote recent.json, in order

cacheVars == <<file, recent, loadErr, hist, nops>>
rankVars == <<oracle, ranked>>
sessVars == <<tmuxInstalled, sessions, clients, pc, inv, started, faults>>

mainVars == <<args, env, step, offered, selected, trace, visits, result>>

nameVars == <<rawName, cleanName, cleanTwice>>

pickVars == <<given, picker, last>>
shareVars == <<writers, saves>>

vars == <<cacheVars, rankVars, sessVars, mainVars, nameVars, pickVars, shareVars>>

-----------------------------------------------------------------------------
(* Bounds of the model                                                     *)

MaxFileLen == 4     \* entries in a persisted recent.json
MaxOps == 2         \* cache operations in one behaviour of SpecCache
MaxFreshOps == 5    \* cache operations in one behaviour of SpecFresh
MaxLines == 2       \* lines the oracle prints
MaxFaults == 1      \* tmux commands that fail for a reason of their own
MaxNameLen == 4     \* bytes of a project name given to SanitizeSessionName
MaxQuery == 2       \* characters typed into the picker's query
MaxPicked == 3      \* projects passed to the picker
MaxFound == 3       \* projects found when a name is resolved

-----------------------------------------------------------------------------
(* Projects: a path and its name, the last segment of the path.  Names are *)
(* sequences of byte values ("B" = 66, "a" = 97, "b" = 98).                *)

Paths == {"/w/B", "/w/a", "/x/a", "/w/ab"}

Base(path) ==
    CASE path = "/w/B"  -> <<66>>
      [] path = "/w/a"  -> <<97>>
      [] path = "/x/a"  -> <<97>>
      [] path = "/w/ab" -> <<97, 98>>

\* The projects FindGitProjects finds, keyed by path: two of them have the
\* same name.
Candidates == {"/w/B", "/w/a", "/x/a"}

\* Wall-clock readings of time.Now(): an earlier and a later one.
Times == {1, 2}

-----------------------------------------------------------------------------
(* internal/cache/recent.go                                                *)

RecentProject(name, path, lastUsed) ==
    [Name |-> name, Path |-> path, LastUsed |-> lastUsed]

Entries == { RecentProject(Base(p), p, t) : p \in Paths, t \in Times }

SeqsUpTo(S, n) == UNION { [1..k -> S] : k \in 0..n }

\* What Load can meet: no cache path (no home directory, or the cache
\* directory cannot be made), no recent.json, one that cannot be read, bytes
\* that are not the JSON of a RecentProjects, or the JSON of any list of
\* entries.
NoPath == [kind |-> "nopath", projects |-> <<>>]
NoFile == [kind |-> "missing", projects |-> <<>>]
UnreadableFile == [kind |-> "unreadable", projects |-> <<>>]
MalformedFile == [kind |-> "malformed", projects |-> <<>>]
JsonFile(projects) == [kind |-> "json", projects |-> projects]

FilesOver(entries) ==
    {NoPath, NoFile, UnreadableFile, MalformedFile}
        \cup { JsonFile(s) : s \in SeqsUpTo(entries, MaxFileLen) }

FileContents == FilesOver(Entries)

NotLoaded == [state |-> "none", Projects |-> <<>>]
NilCache == [state |-> "nil", Projects |-> <<>>]
Cache(projects) == [state |-> "ok", Projects |-> projects]

\* Load: the (*RecentProjects, error) pair it returns for the file as it is.
LoadResult(f) ==
    IF f.kind = "nopath" THEN [recent |-> Cache(<<>>), err |-> FALSE]
    ELSE IF f.kind = "missing" THEN [recent |-> Cache(<<>>), err |-> FALSE]
    ELSE IF f.kind = "unreadable" THEN [recent |-> NilCache, err |-> TRUE]
    ELSE IF f.kind = "malformed" THEN [recent |-> Cache(<<>>), err |-> FALSE]
    ELSE [recent |-> Cache(f.projects), err |-> FALSE]

\* The index of the first entry with the path, 0 when there is none.
IndexOfPath(projects, path) ==
    IF \E i \in 1..Len(projects) : projects[i].Path = path
    THEN CHOOSE i \in 1..Len(projects) :
            /\ projects[i].Path = path
            /\ \A j \in 1..(i - 1) : projects[j].Path # path
    ELSE 0

RemoveAt(s, i) == SubSeq(s, 1, i - 1) \o SubSeq(s, i + 1, Len(s))

\* A variant of the loop of Add that finds nothing to drop.
RemoveNothing(projects, path) == projects

\* The loop of Add: drop the first entry with the path, then stop.
RemoveExisting(projects, path) ==
    IF IndexOfPath(projects, path) = 0 THEN projects
    ELSE RemoveAt(projects, IndexOfPath(projects, path))

KeepLimit == 3

KeepTop(projects) ==
    IF Len(projects) > KeepLimit THEN SubSeq(projects, 1, KeepLimit) ELSE projects

\* A variant of Add that puts the new entry at the back.
AddAtBack(projects, name, path, now) ==
    KeepTop(RemoveExisting(projects, path) \o <<RecentProject(name, path, now)>>)

AddProject(projects, name, path, now) ==
    KeepTop(<<RecentProject(name, path, now)>> \o RemoveExisting(projects, path))

GetTop3(projects) ==
    IF Len(projects) > 3 THEN SubSeq(projects, 1, 3) ELSE projects

-----------------------------------------------------------------------------
(* The cache operations as actions                                         *)

Load(limit) ==
    /\ nops < limit
    /\ recent' = LoadResult(file).recent
    /\ loadErr' = LoadResult(file).err
    /\ hist' = [op |-> "load", path |-> "", before |-> <<>>, failed |-> LoadResult(file).err]
    /\ nops' = nops + 1
    /\ UNCHANGED <<file, rankVars, sessVars, mainVars, nameVars, pickVars, shareVars>>

Add(limit) ==
    /\ nops < limit
    /\ recent.state = "ok"
    /\ \E p \in Paths, now \in Times :
        /\ recent' = Cache(AddProject(recent.Projects, Base(p), p, now))
        /\ hist' = [op |-> "add", path |-> p, before |-> recent.Projects, failed |-> FALSE]
    /\ nops' = nops + 1
    /\ UNCHANGED <<file, loadErr, rankVars, sessVars, mainVars, nameVars, pickVars, shareVars>>

\* What Save can do to the file: nothing when there is no cache path;
\* otherwise WriteFile writes the JSON of the cache, or fails before or
\* after it truncated the file.
SaveOutcomes(f) ==
    IF f.kind = "nopath" THEN {"patherr"} ELSE {"written", "openerr", "partial"}

\* A variant of Save that leaves the file as it is.
SaveKeepsFile(f, projects, outcome) == f

SaveResult(f, projects, outcome) ==
    CASE outcome = "written" -> JsonFile(projects)
      [] outcome = "partial" -> MalformedFile
      [] OTHER -> f

Save(limit) ==
    /\ nops < limit
    /\ recent.state = "ok"
    /\ \E outcome \in SaveOutcomes(file) :
        /\ file' = SaveResult(file, recent.Projects, outcome)
        /\ hist' = [op |-> "save", path |-> "", before |-> recent.Projects,
                    failed |-> outcome # "written"]
    /\ nops' = nops + 1
    /\ UNCHANGED <<recent, loadErr, rankVars, sessVars, mainVars, nameVars, pickVars, shareVars>>

-----------------------------------------------------------------------------
(* internal/zoxide/zoxide.go                                               *)

\* A line of `zoxide query -l -s` after TrimSpace and SplitN(line, " ", 2):
\* how many parts it has, whether the first parses as a float, its value,
\* and the second part.
Scores == {5, 7999}

BlankLine == [parts |-> 0, numeric |-> FALSE, score |-> 0, path |-> ""]
OnePartLine == [parts |-> 1, numeric |-> TRUE, score |-> 5, path |-> ""]
BadFloatLine(p) == [parts |-> 2, numeric |-> FALSE, score |-> 0, path |-> p]
ScoreLine(n, p) == [parts |-> 2, numeric |-> TRUE, score |-> n, path |-> p]

\* The directories zoxide has scores for.
Visited == {"/w/B", "/w/a"}

Lines ==
    {BlankLine, OnePartLine, BadFloatLine("/w/a")}
        \cup { ScoreLine(n, p) : n \in Scores, p \in Visited }

\* The oracle: no zoxide binary, a query that exits non-zero, or output.
OracleMissing == [kind |-> "missing", lines |-> <<>>]
OracleFails == [kind |-> "fails", lines |-> <<>>]
OracleOutput(lines) == [kind |-> "output", lines |-> lines]

Oracles ==
    {OracleMissing, OracleFails}
        \cup { OracleOutput(l) : l \in SeqsUpTo(Lines, MaxLines) }

\* A map[string]float64: nil, or the keys that are set and their values.
NilMap == [isNil |-> TRUE, keys |-> {}, val |-> [p \in Paths |-> 0]]
EmptyMap == [isNil |-> FALSE, keys |-> {}, val |-> [p \in Paths |-> 0]]

MapSet(m, key, v) ==
    [isNil |-> FALSE, keys |-> m.keys \cup {key}, val |-> [m.val EXCEPT ![key] = v]]

\* A variant that does not look at the error of ParseFloat.
LineAlwaysCounts(line) == line.parts = 2

\* The body of the loop over the lines: which lines set a score.
LineCounts(line) == line.parts = 2 /\ line.numeric

RECURSIVE ParseLines(_, _)
ParseLines(lines, m) ==
    IF lines = <<>> THEN m
    ELSE ParseLines(Tail(lines),
                    IF LineCounts(Head(lines))
                    THEN MapSet(m, Head(lines).path, Head(lines).score)
                    ELSE m)

GetScores(o) ==
    IF o.kind = "missing" THEN NilMap
    ELSE IF o.kind = "fails" THEN EmptyMap
    ELSE ParseLines(o.lines, EmptyMap)

-----------------------------------------------------------------------------
(* internal/finder/finder.go                                               *)

Project(path) == [Name |-> Base(path), Path |-> path, Score |-> 0]

\* The slice built by ranging over projectsMap: the projects in any order.
IterationOrders ==
    { o \in [1..Cardinality(Candidates) -> Candidates] :
        \A i, j \in 1..Cardinality(Candidates) : o[i] = o[j] => i = j }

\* recentPaths: the rank the loop over GetTop3 leaves for a path, 0 when it
\* sets none.  A later entry with the same path overwrites an earlier one.
RecentRank(top, path) ==
    IF \E i \in 1..Len(top) : top[i].Path = path
    THEN CHOOSE i \in 1..Len(top) :
            /\ top[i].Path = path
            /\ \A j \in (i + 1)..Len(top) : top[j].Path # path
    ELSE 0

\* A variant of the boost with the subtraction left out.
RankTimesThousand(rank) == rank * 1000

RecencyBoost(rank) == 11000 - (rank * 1000)

\* recentPaths is filled only when Load returned a cache.
RecentPaths(loaded) == IF loaded.state = "ok" THEN GetTop3(loaded.Projects) ELSE <<>>

CombinedScore(path, zoxideScores, top) ==
    (IF ~zoxideScores.isNil /\ path \in zoxideScores.keys
     THEN zoxideScores.val[path] ELSE 0)
    + (IF RecentRank(top, path) # 0 THEN RecencyBoost(RecentRank(top, path)) ELSE 0)

\* Go's string <: byte-wise, a proper prefix first.
RECURSIVE StringLess(_, _)
StringLess(a, b) ==
    IF b = <<>> THEN FALSE
    ELSE IF a = <<>> THEN TRUE
    ELSE IF Head(a) # Head(b) THEN Head(a) < Head(b)
    ELSE StringLess(Tail(a), Tail(b))

\* A variant of the less function with no tie-break.
ScoreOnlyLess(x, y) == x.Score > y.Score

\* The less function handed to sort.Slice.
Less(x, y) ==
    IF x.Score # y.Score THEN x.Score > y.Score
    ELSE StringLess(x.Name, y.Name)

\* sort.Slice on a slice this short is an insertion sort: each element moves
\* left past its neighbours while it is less than them.
RECURSIVE InsertLeft(_, _)
InsertLeft(sorted, x) ==
    IF sorted = <<>> THEN <<x>>
    ELSE IF Less(x, sorted[Len(sorted)])
         THEN InsertLeft(SubSeq(sorted, 1, Len(sorted) - 1), x)
                  \o <<sorted[Len(sorted)]>>
         ELSE sorted \o <<x>>

RECURSIVE InsertionSort(_, _)
InsertionSort(done, rest) ==
    IF rest = <<>> THEN done
    ELSE InsertionSort(InsertLeft(done, Head(rest)), Tail(rest))

SortSlice(projects) == InsertionSort(<<>>, projects)

ApplyFrecencyScores(order, o, f) ==
    LET zoxideScores == GetScores(o)
        top == RecentPaths(LoadResult(f).recent)
    IN  SortSlice([i \in 1..Len(order) |->
            [Project(order[i]) EXCEPT
                !.Score = CombinedScore(order[i], zoxideScores, top)]])

\* One run of applyFrecencyScores over the projects in some map order.
Rank ==
    /\ \E order \in IterationOrders :
        ranked' = ApplyFrecencyScores(order, oracle, file)
    /\ UNCHANGED <<cacheVars, oracle, sessVars, mainVars, nameVars, pickVars, shareVars>>

-----------------------------------------------------------------------------
(* internal/tmux/session.go: names                                         *)

\* [a-zA-Z0-9_-] as byte values.
ValidChar(c) ==
    \/ c \in 97..122
    \/ c \in 65..90
    \/ c \in 48..57
    \/ c = 95
    \/ c = 45

\* ReplaceAllString(name, "-") for [^a-zA-Z0-9_-]+ : each run becomes one "-".
RECURSIVE ReplaceRuns(_, _)
ReplaceRuns(s, inRun) ==
    IF s = <<>> THEN <<>>
    ELSE IF ValidChar(Head(s)) THEN <<Head(s)>> \o ReplaceRuns(Tail(s), FALSE)
    ELSE IF inRun THEN ReplaceRuns(Tail(s), TRUE)
    ELSE <<45>> \o ReplaceRuns(Tail(s), TRUE)

\* A variant that turns each character outside the class into a hyphen.
ReplaceEachChar(name) ==
    [k \in 1..Len(name) |-> IF ValidChar(name[k]) THEN name[k] ELSE 45]

\* reg.ReplaceAllString(name, "-")
ReplaceAllString(name) == ReplaceRuns(name, FALSE)

RECURSIVE TrimLeft(_)
TrimLeft(s) ==
    IF s # <<>> /\ Head(s) = 45 THEN TrimLeft(Tail(s)) ELSE s

RECURSIVE TrimRight(_)
TrimRight(s) ==
    IF s # <<>> /\ s[Len(s)] = 45 THEN TrimRight(SubSeq(s, 1, Len(s) - 1)) ELSE s

\* A variant that leaves the hyphens at the ends.
TrimNothing(s) == s

\* strings.Trim(s, "-")
TrimHyphens(s) == TrimRight(TrimLeft(s))

ToLower(s) == [i \in 1..Len(s) |-> IF s[i] \in 65..90 THEN s[i] + 32 ELSE s[i]]

SanitizeSessionName(name) == ToLower(TrimHyphens(ReplaceAllString(name)))

\* A call of SanitizeSessionName that has not been made, and one that
\* returned.
NotSanitized == [set |-> FALSE, value |-> <<>>]
Sanitized(value) == [set |-> TRUE, value |-> value]

\* SanitizeSessionName is applied to the name.
Sanitize ==
    /\ ~cleanName.set
    /\ cleanName' = Sanitized(SanitizeSessionName(rawName))
    /\ UNCHANGED <<rawName, cleanTwice>>
    /\ UNCHANGED <<cacheVars, rankVars, sessVars, mainVars, pickVars, shareVars>>

\* SanitizeSessionName is applied to its own result, as runConnect does
\* when it is given the name of a session.
SanitizeAgain ==
    /\ cleanName.set
    /\ ~cleanTwice.set
    /\ cleanTwice' = Sanitized(SanitizeSessionName(cleanName.value))
    /\ UNCHANGED <<rawName, cleanName>>
    /\ UNCHANGED <<cacheVars, rankVars, sessVars, mainVars, pickVars, shareVars>>

-----------------------------------------------------------------------------
(* internal/tmux/session.go: the tmux server as the commands see it        *)

Inv == {1, 2}

SessionNames == { SanitizeSessionName(Base(p)) : p \in Candidates }

\* The tmux clients: the one the invocation runs in when TMUX is set, and
\* the one a launcher can name in SESH_TARGET_CLIENT.
AmbientClient == "ambient"
LauncherClient == "launcher"
Clients == {AmbientClient, LauncherClient}

\* born counts how often a session of the name was created.
NoSession ==
    [exists |-> FALSE, windows |-> <<>>, active |-> 0, sent |-> <<>>, dir |-> "",
     born |-> 0]

HasWindow(sess, window) ==
    sess.exists /\ \E k \in 1..Len(sess.windows) : sess.windows[k] = window

WindowIndex(sess, window) ==
    CHOOSE k \in 1..Len(sess.windows) :
        /\ sess.windows[k] = window
        /\ \A m \in 1..(k - 1) : sess.windows[m] # window

\* A variant of tmux that takes a second session of the same name.
NewSessionAlwaysOK(name) == TRUE

\* new-session -d -s name -c dir -n window: refused when the name is taken.
NewSessionOK(name) == ~sessions[name].exists

NewSession(name, dir, window) ==
    [sessions EXCEPT ![name] =
        [exists |-> TRUE, windows |-> <<window>>, active |-> 1, sent |-> <<>>,
         dir |-> dir, born |-> sessions[name].born + 1]]

\* send-keys -t name:window keys Enter
SendKeysOK(name, window) == HasWindow(sessions[name], window)

SendKeys(name, window, keys) ==
    [sessions EXCEPT ![name].sent = @ \o <<[window |-> window, keys |-> keys]>>]

\* new-window -t name -n window: the new window becomes the active one.
NewWindowOK(name) == sessions[name].exists

NewWindow(name, window) ==
    [sessions EXCEPT ![name].windows = @ \o <<window>>,
                     ![name].active = Len(sessions[name].windows) + 1]

\* A variant of select-window that leaves the active window as it is.
SelectNothing(name, window) == sessions

\* select-window -t name:window
SelectWindowOK(name, window) == HasWindow(sessions[name], window)

SelectWindow(name, window) ==
    [sessions EXCEPT ![name].active = WindowIndex(sessions[name], window)]

\* A tmux command fails when tmux refuses it, or for a reason of its own.
Outcomes(accepted) ==
    IF ~accepted THEN {FALSE}
    ELSE IF faults < MaxFaults THEN {TRUE, FALSE}
    ELSE {TRUE}

CountFault(accepted, ok) == IF accepted /\ ~ok THEN faults + 1 ELSE faults

-----------------------------------------------------------------------------
(* internal/tmux/session.go: GetOrCreateSession, one command per step      *)

\* An invocation: its project and environment, how has-session exited and
\* what SessionExists made of it, how often it entered CreateSession, the
\* commands of CreateSession that ran, the transfer it made and the error
\* it returned; alone records that no other invocation was running when it
\* began.
NotRun == "not run"

Idle ==
    [project |-> "", name |-> <<>>, inTmux |-> FALSE, target |-> "",
     exit |-> NotRun, exists |-> FALSE, creates |-> 0, steps |-> <<>>,
     transfer |-> "none", error |-> "none", alone |-> TRUE]

SessionNameOf(i) == SanitizeSessionName(Base(inv[i].project))

\* A variant in which an invocation that failed goes on to the transfer.
FailThenTransfer(i, what) ==
    /\ inv' = [inv EXCEPT ![i].error = what]
    /\ pc' = [pc EXCEPT ![i] = "transfer"]

\* A variant in which the command that failed is run again.
FailAndRetry(i, what) ==
    /\ inv' = [inv EXCEPT ![i].error = what]
    /\ UNCHANGED pc

Fail(i, what) ==
    /\ inv' = [inv EXCEPT ![i].error = what]
    /\ pc' = [pc EXCEPT ![i] = "done"]

Goto(i, label) == pc' = [pc EXCEPT ![i] = label]

\* GetOrCreateSession is called for a project by a process with TMUX set
\* or not and SESH_TARGET_CLIENT set or not.
CallFor(i, p, inTmux, target) ==
    /\ pc[i] = "idle"
    /\ inv' = [inv EXCEPT ![i] =
                    [Idle EXCEPT !.project = p,
                                 !.name = SanitizeSessionName(Base(p)),
                                 !.inTmux = inTmux,
                                 !.target = target,
                                 !.alone = \A j \in Inv \ {i} :
                                                pc[j] \in {"idle", "done"}]]
    /\ Goto(i, "lookpath")
    /\ started' = Append(started, i)
    /\ UNCHANGED <<tmuxInstalled, sessions, clients, faults>>

Call(i) ==
    /\ \E p \in Candidates, inTmux \in BOOLEAN, target \in {"", LauncherClient} :
        CallFor(i, p, inTmux, target)
    /\ UNCHANGED <<cacheVars, rankVars, mainVars, nameVars, pickVars, shareVars>>

\* exec.LookPath("tmux")
LookPath(i) ==
    /\ pc[i] = "lookpath"
    /\ IF tmuxInstalled
       THEN Goto(i, "has-session") /\ UNCHANGED inv
       ELSE Fail(i, "tmux is not installed")
    /\ UNCHANGED <<tmuxInstalled, sessions, clients, started, faults>>
    /\ UNCHANGED <<cacheVars, rankVars, mainVars, nameVars, pickVars, shareVars>>

\* A variant that treats a session already there as one more to create.
AlwaysCreate(exists) == FALSE

\* `if exists`: whether GetOrCreateSession skips CreateSession.
SkipsCreate(exists) == exists

\* How `tmux has-session -t name` ends: exit status 0 when the session is
\* there, 1 when it is not, and otherwise (the command cannot be run, is
\* killed, or exits with another status) some other failure.
ExitFound == "exit 0"
ExitNotFound == "exit 1"
ExitOther == "other failure"

\* A variant of tmux that never finds a session.
NeverFound(name, ok) == IF ~ok THEN ExitOther ELSE ExitNotFound

HasSession(name, ok) ==
    IF ~ok THEN ExitOther
    ELSE IF sessions[name].exists THEN ExitFound ELSE ExitNotFound

\* A variant of SessionExists that takes every failure for "no session".
AnyFailureIsNotFound(exit) == [exists |-> exit = ExitFound, failed |-> FALSE]

\* The (bool, error) pair SessionExists returns for an exit of has-session.
ExistsResult(exit) ==
    [exists |-> exit = ExitFound,
     failed |-> exit # ExitFound /\ exit # ExitNotFound]

\* SessionExists and what GetOrCreateSession does with its result.
SessionExists(i) ==
    /\ pc[i] = "has-session"
    /\ \E ok \in Outcomes(TRUE) :
        LET exit == HasSession(inv[i].name, ok)
            res == ExistsResult(exit)
        IN  /\ faults' = CountFault(TRUE, ok)
            /\ IF res.failed
               THEN /\ inv' = [inv EXCEPT ![i].exit = exit,
                                          ![i].error = "error checking session"]
                    /\ Goto(i, "done")
               ELSE /\ inv' = [inv EXCEPT
                                ![i].exit = exit,
                                ![i].exists = res.exists,
                                ![i].creates =
                                    IF SkipsCreate(res.exists) THEN @ ELSE @ + 1]
                    /\ Goto(i, IF SkipsCreate(res.exists)
                               THEN "transfer" ELSE "new-session")
    /\ UNCHANGED <<tmuxInstalled, sessions, clients, started>>
    /\ UNCHANGED <<cacheVars, rankVars, mainVars, nameVars, pickVars, shareVars>>

\* One command of CreateSession: it runs and the next one follows, or it
\* fails and CreateSession returns the error of this step.
CreateStep(i, label, accepted, after, next, error) ==
    /\ pc[i] = label
    /\ \E ok \in Outcomes(accepted) :
        /\ faults' = CountFault(accepted, ok)
        /\ IF ok
           THEN /\ sessions' = after
                /\ Goto(i, next)
                /\ inv' = [inv EXCEPT ![i].steps = Append(@, label)]
           ELSE /\ Fail(i, error)
                /\ UNCHANGED sessions
    /\ UNCHANGED <<tmuxInstalled, clients, started>>
    /\ UNCHANGED <<cacheVars, rankVars, mainVars, nameVars, pickVars, shareVars>>

CreateNewSession(i) ==
    CreateStep(i, "new-session", NewSessionOK(SessionNameOf(i)),
               NewSession(SessionNameOf(i), inv[i].project, "neovim"),
               "send-nvim", "failed to create tmux session")

SendNvim(i) ==
    CreateStep(i, "send-nvim", SendKeysOK(SessionNameOf(i), "neovim"),
               SendKeys(SessionNameOf(i), "neovim", "nvim ."),
               "new-opencode", "failed to send nvim command")

CreateOpencodeWindow(i) ==
    CreateStep(i, "new-opencode", NewWindowOK(SessionNameOf(i)),
               NewWindow(SessionNameOf(i), "opencode"),
               "send-opencode", "failed to create opencode window")

SendOpencode(i) ==
    CreateStep(i, "send-opencode", SendKeysOK(SessionNameOf(i), "opencode"),
               SendKeys(SessionNameOf(i), "opencode", "opencode --port 0 ."),
               "new-zsh", "failed to send opencode command")

CreateZshWindow(i) ==
    CreateStep(i, "new-zsh", NewWindowOK(SessionNameOf(i)),
               NewWindow(SessionNameOf(i), "zsh"),
               "select-neovim", "failed to create zsh window")

SelectNeovim(i) ==
    CreateStep(i, "select-neovim", SelectWindowOK(SessionNameOf(i), "neovim"),
               SelectWindow(SessionNameOf(i), "neovim"),
               "transfer", "failed to select first window")

\* A variant that switches the client of the process whatever is asked.
AlwaysAmbient(target) == AmbientClient

\* The client switch-client acts on: SESH_TARGET_CLIENT when it is set.
SwitchTarget(target) == IF target # "" THEN target ELSE AmbientClient

\* tmux accepts switch-client -t name [-c client] when the session is there
\* and there is a client to switch: the one named, or the one the process
\* runs in.
SwitchClientOK(name, inTmux, target) ==
    /\ sessions[name].exists
    /\ target # "" \/ inTmux

\* SwitchSession(sessionName) run by invocation i in a process with TMUX
\* set or not: one switch-client command, its error returned.
SwitchClient(i, name, inTmux, target) ==
    /\ \E ok \in Outcomes(SwitchClientOK(name, inTmux, target)) :
        /\ faults' = CountFault(SwitchClientOK(name, inTmux, target), ok)
        /\ IF ok
           THEN /\ clients' = [clients EXCEPT ![SwitchTarget(target)] =
                                [attached |-> TRUE, session |-> name]]
                /\ inv' = [inv EXCEPT ![i].name = name,
                                      ![i].inTmux = inTmux,
                                      ![i].target = target,
                                      ![i].transfer = "switch"]
           ELSE /\ inv' = [inv EXCEPT ![i].name = name,
                                      ![i].inTmux = inTmux,
                                      ![i].target = target,
                                      ![i].error = "switch-client failed"]
                /\ UNCHANGED clients
    /\ Goto(i, "done")
    /\ UNCHANGED <<tmuxInstalled, sessions, started>>

\* `if os.Getenv("TMUX") != ""`: whether GetOrCreateSession switches.
InsideTmux(inTmux) == inTmux

\* GetOrCreateSession inside tmux: SwitchSession
SwitchSession(i) ==
    /\ pc[i] = "transfer"
    /\ InsideTmux(inv[i].inTmux)
    /\ SwitchClient(i, inv[i].name, inv[i].inTmux, inv[i].target)
    /\ UNCHANGED <<cacheVars, rankVars, mainVars, nameVars, pickVars, shareVars>>

\* AttachSession: the process becomes `tmux attach-session -t name`, or
\* syscall.Exec fails.
AttachSession(i) ==
    /\ pc[i] = "transfer"
    /\ ~InsideTmux(inv[i].inTmux)
    /\ \E ok \in Outcomes(TRUE) :
        /\ faults' = CountFault(TRUE, ok)
        /\ IF ok
           THEN /\ inv' = [inv EXCEPT ![i].transfer = "attach"]
                /\ Goto(i, "done")
           ELSE Fail(i, "exec failed")
    /\ UNCHANGED <<tmuxInstalled, sessions, clients, started>>
    /\ UNCHANGED <<cacheVars, rankVars, mainVars, nameVars, pickVars, shareVars>>

-----------------------------------------------------------------------------
(* main.go: run and its entry points, one external call per step           *)

\* What the selector or the name on the command line gives: a project (for
\* `sesh switch`, a session under its name), or nothing.
NoChoice == [chosen |-> FALSE, Name |-> <<>>, Path |-> ""]
Chosen(project) == [chosen |-> TRUE, Name |-> project.Name, Path |-> project.Path]

\* Names given to `sesh connect`: "a", "b", "a!" and "z".
Names == { <<97>>, <<98>>, <<97, 33>>, <<122>> }

HasPrefix(s, prefix) ==
    /\ Len(prefix) <= Len(s)
    /\ SubSeq(s, 1, Len(prefix)) = prefix

\* The index of the first project of the slice that matches, 0 when none
\* does; matches[k] tells whether the k-th project matches.
FirstMatch(matches) ==
    IF \E k \in 1..Len(matches) : matches[k]
    THEN CHOOSE k \in 1..Len(matches) :
            /\ matches[k]
            /\ \A m \in 1..(k - 1) : ~matches[m]
    ELSE 0

\* A variant of runConnect with one loop: the first project that matches in
\* any of the three ways.
ResolveAnyTier(projects, name) ==
    LET any == [k \in 1..Len(projects) |->
                    \/ ToLower(projects[k].Name) = ToLower(name)
                    \/ SanitizeSessionName(projects[k].Name) =
                            SanitizeSessionName(name)
                    \/ HasPrefix(ToLower(projects[k].Name), ToLower(name))]
    IN  IF FirstMatch(any) # 0 THEN Chosen(projects[FirstMatch(any)])
        ELSE NoChoice

\* The three loops of runConnect: exact name, sanitized name, name prefix.
Resolve(projects, name) ==
    LET exact == [k \in 1..Len(projects) |->
                    ToLower(projects[k].Name) = ToLower(name)]
        session == [k \in 1..Len(projects) |->
                    SanitizeSessionName(projects[k].Name) = SanitizeSessionName(name)]
        prefix == [k \in 1..Len(projects) |->
                    HasPrefix(ToLower(projects[k].Name), ToLower(name))]
    IN  IF FirstMatch(exact) # 0 THEN Chosen(projects[FirstMatch(exact)])
        ELSE IF FirstMatch(session) # 0 THEN Chosen(projects[FirstMatch(session)])
        ELSE IF FirstMatch(prefix) # 0 THEN Chosen(projects[FirstMatch(prefix)])
        ELSE NoChoice

Did(what) == trace' = Append(trace, what)

\* What run() returns: nil ("ok") or an error, and for the not-found error
\* the project names its text lists.
NoResult == [error |-> "none", listed |-> <<>>]

Return(value) ==
    /\ result' = [error |-> value, listed |-> <<>>]
    /\ step' = "exit"

\* A variant of getProjectList that lists nothing.
ListNothing(list) == <<>>

\* getProjectList: the names of the projects, in the order of the slice.
GetProjectList(list) == [k \in 1..Len(list) |-> list[k].Name]

\* A variant of the callers that returns when the call failed.
ChecksError(failed) == failed

\* `_ = f()`: the failure the caller acts on is none.
BlankAssign(failed) == FALSE

\* config.LoadConfig and finder.FindGitProjects: the projects are found and
\* ranked, or one of the two fails.
FindGitProjects ==
    /\ step = "find"
    /\ \/ /\ \E order \in IterationOrders :
                /\ ranked' = ApplyFrecencyScores(order, oracle, file)
                /\ offered' = ApplyFrecencyScores(order, oracle, file)
          /\ trace' = trace \o <<"discovery", "ranking">>
          /\ step' = IF args.entry = "connect" THEN "resolve" ELSE "select"
          /\ UNCHANGED result
       \/ /\ Return("failed to find projects")
          /\ UNCHANGED <<ranked, offered, trace>>
    /\ UNCHANGED <<args, env, selected, visits>>
    /\ UNCHANGED <<cacheVars, oracle, sessVars, nameVars, pickVars, shareVars>>

\* The name of `sesh connect` is resolved against the ranked projects.
ResolveName ==
    /\ step = "resolve"
    /\ selected' = Resolve(offered, args.name)
    /\ IF Resolve(offered, args.name).chosen
       THEN step' = "load" /\ Did("selection") /\ UNCHANGED result
       ELSE /\ result' = [error |-> "project not found",
                           listed |-> GetProjectList(offered)]
            /\ step' = "exit"
            /\ UNCHANGED trace
    /\ UNCHANGED <<args, env, offered, visits>>
    /\ UNCHANGED <<cacheVars, rankVars, sessVars, nameVars, pickVars, shareVars>>

\* runSwitch: `tmux list-sessions` gives the sessions for the selector.
Listed == { n \in SessionNames : sessions[n].exists }

ListedOrders ==
    { o \in [1..Cardinality(Listed) -> Listed] :
        \A i, j \in 1..Cardinality(Listed) : o[i] = o[j] => i = j }

ListSessions ==
    /\ step = "list"
    /\ IF tmuxInstalled /\ Listed # {}
       THEN /\ \E o \in ListedOrders :
                offered' = [k \in 1..Len(o) |->
                    [Name |-> o[k], Path |-> sessions[o[k]].dir, Score |-> 0]]
            /\ step' = "select"
            /\ UNCHANGED result
       ELSE /\ Return("no active tmux sessions")
            /\ UNCHANGED offered
    /\ UNCHANGED <<args, env, selected, trace, visits>>
    /\ UNCHANGED <<cacheVars, rankVars, sessVars, nameVars, pickVars, shareVars>>

\* A variant of the callers that goes on after a quit.
NeverQuit(choice) == FALSE

\* `if selectedProject == nil { return nil }`
Quit(choice) == ~choice.chosen

\* ui.SelectProject and the caller's check of what it returned: a project of
\* the slice, nothing (the user quit), or an error of the terminal program.
SelectProject ==
    /\ step = "select"
    /\ \/ \E choice \in {NoChoice} \cup { Chosen(offered[k]) : k \in 1..Len(offered) } :
            /\ selected' = choice
            /\ Did("selection")
            /\ IF Quit(choice)
               THEN Return("ok")
               ELSE /\ step' = IF args.entry = "switch" THEN "switch" ELSE "load"
                    /\ UNCHANGED result
       \/ /\ Return("failed to select")
          /\ UNCHANGED <<selected, trace>>
    /\ UNCHANGED <<args, env, offered, visits>>
    /\ UNCHANGED <<cacheVars, rankVars, sessVars, nameVars, pickVars, shareVars>>

\* recent, _ := cache.Load()
RecordLoad ==
    /\ step = "load"
    /\ recent' = LoadResult(file).recent
    /\ loadErr' = LoadResult(file).err
    /\ hist' = [op |-> "load", path |-> "", before |-> <<>>,
                failed |-> LoadResult(file).err]
    /\ nops' = nops + 1
    /\ step' = IF LoadResult(file).recent.state = "ok" THEN "add" ELSE "zoxide"
    /\ Did("cache load")
    /\ UNCHANGED <<file, args, env, offered, selected, visits, result>>
    /\ UNCHANGED <<rankVars, sessVars, nameVars, pickVars, shareVars>>

\* recent.Add(p.Name, p.Path)
RecordAdd ==
    /\ step = "add"
    /\ \E now \in Times :
        recent' = Cache(AddProject(recent.Projects, selected.Name, selected.Path, now))
    /\ hist' = [op |-> "add", path |-> selected.Path, before |-> recent.Projects,
                failed |-> FALSE]
    /\ nops' = nops + 1
    /\ step' = "save"
    /\ Did("cache add")
    /\ UNCHANGED <<file, loadErr, args, env, offered, selected, visits, result>>
    /\ UNCHANGED <<rankVars, sessVars, nameVars, pickVars, shareVars>>

\* _ = recent.Save()
RecordSave ==
    /\ step = "save"
    /\ \E outcome \in SaveOutcomes(file) :
        /\ file' = SaveResult(file, recent.Projects, outcome)
        /\ hist' = [op |-> "save", path |-> "", before |-> recent.Projects,
                    failed |-> outcome # "written"]
        /\ IF BlankAssign(outcome # "written")
           THEN Return("failed to save the cache")
           ELSE step' = "zoxide" /\ UNCHANGED result
    /\ nops' = nops + 1
    /\ Did("cache save")
    /\ UNCHANGED <<recent, loadErr, args, env, offered, selected, visits>>
    /\ UNCHANGED <<rankVars, sessVars, nameVars, pickVars, shareVars>>

\* _ = zoxide.Add(p.Path): nothing when zoxide is not installed, otherwise
\* `zoxide add path`, which can fail.
ZoxideAdd ==
    /\ step = "zoxide"
    /\ \E ok \in IF oracle.kind = "missing" THEN {TRUE} ELSE BOOLEAN :
        /\ visits' = IF oracle.kind = "missing" THEN visits
                     ELSE Append(visits, selected.Path)
        /\ trace' = IF ok THEN trace \o <<"oracle update">>
                    ELSE trace \o <<"oracle update", "oracle update failed">>
        /\ IF BlankAssign(~ok)
           THEN Return("failed to record the visit")
           ELSE step' = "reconcile" /\ UNCHANGED result
    /\ UNCHANGED <<args, env, offered, selected>>
    /\ UNCHANGED <<cacheVars, rankVars, sessVars, nameVars, pickVars, shareVars>>

\* The sesh process is invocation 1 of the tmux operations.
Self == 1

\* tmux.GetOrCreateSession(p) is entered.
Reconcile ==
    /\ step = "reconcile"
    /\ CallFor(Self, selected.Path, env.inTmux, env.target)
    /\ step' = "session"
    /\ Did("reconcile")
    /\ UNCHANGED <<args, env, offered, selected, visits, result>>
    /\ UNCHANGED <<cacheVars, rankVars, nameVars, pickVars, shareVars>>

\* runSwitch: tmux.SwitchSession(selectedSession.Name)
SwitchSelected ==
    /\ step = "switch"
    /\ pc[Self] = "idle"
    /\ SwitchClient(Self, selected.Name, env.inTmux, env.target)
    /\ step' = "session"
    /\ Did("switch")
    /\ UNCHANGED <<args, env, offered, selected, visits, result>>
    /\ UNCHANGED <<cacheVars, rankVars, nameVars, pickVars, shareVars>>

\* The tmux operation returned (or, after attach, tmux took over the
\* process): run returns its error.
Finish ==
    /\ step = "session"
    /\ pc[Self] = "done"
    /\ Return(IF inv[Self].error = "none" THEN "ok" ELSE inv[Self].error)
    /\ UNCHANGED <<args, env, offered, selected, trace, visits>>
    /\ UNCHANGED <<cacheVars, rankVars, sessVars, nameVars, pickVars, shareVars>>

-----------------------------------------------------------------------------
(* internal/ui: the picker, one message of the terminal per step           *)

\* The keys pressed: some with a printable character, and backspace, the
\* arrows, Enter, Esc and Ctrl+C, each by the name msg.String() gives it.
Printable == {"a", "b", "x", "j", "k"}

Keys == Printable \cup {"backspace", "left", "up", "down", "enter", "esc", "ctrl+c"}

\* A variant of the switch in which only the arrows move the cursor.
ArrowsOnly(key) ==
    CASE key \in {"ctrl+c", "esc"} -> "quit"
      [] key = "enter" -> "enter"
      [] key = "up" -> "up"
      [] key = "down" -> "down"
      [] OTHER -> "default"

\* `switch msg.String()`: the case of Update that handles the key.
KeyCase(key) ==
    CASE key \in {"ctrl+c", "esc"} -> "quit"
      [] key = "enter" -> "enter"
      [] key \in {"up", "k"} -> "up"
      [] key \in {"down", "j"} -> "down"
      [] OTHER -> "default"

HandledBy(case) == { key \in Keys : KeyCase(key) = case }

\* The printable keys that reach the text input: "j" and "k" do not, they
\* move the cursor like the arrow keys.
Typed == Printable \cap HandledBy("default")

KeyByte(key) ==
    CASE key = "a" -> 97
      [] key = "b" -> 98
      [] key = "x" -> 120
      [] key = "j" -> 106
      [] key = "k" -> 107

\* textinput.Update: a character is put at the end of the value, backspace
\* takes the last one away.
TextInput(value, key) ==
    IF key \in Printable THEN Append(value, KeyByte(key))
    ELSE IF key = "backspace" /\ value # <<>> THEN SubSeq(value, 1, Len(value) - 1)
    ELSE value

\* fuzzy.Find(query, names): the names that hold the characters of the
\* pattern in this order, letter case ignored, best score first.  The
\* positions matched are the leftmost ones, 0 marks a character not found.
RECURSIVE LeftmostMatch(_, _, _)
LeftmostMatch(pattern, str, from) ==
    IF pattern = <<>> THEN <<>>
    ELSE IF from > Len(str) THEN <<0>>
    ELSE IF ToLower(<<str[from]>>) = ToLower(<<Head(pattern)>>)
    THEN <<from>> \o LeftmostMatch(Tail(pattern), str, from + 1)
    ELSE LeftmostMatch(pattern, str, from + 1)

FuzzyMatches(pattern, str) ==
    LET at == LeftmostMatch(pattern, str, 1)
    IN  Len(at) = Len(pattern) /\ \A k \in 1..Len(at) : at[k] # 0

\* The results fuzzy.Find can give: the indexes of the matching names, each
\* once, in the order of relevance the library gives them.  The library is
\* not part of the program; every order is taken to be possible.
FuzzyFind(pattern, names) ==
    LET hits == { k \in 1..Len(names) : FuzzyMatches(pattern, names[k]) }
    IN  { o \in [1..Cardinality(hits) -> hits] :
            \A i, j \in 1..Cardinality(hits) : o[i] = o[j] => i = j }

\* A variant of fuzzyFilter that searches the list on display.
SearchedShown(all, shown) == shown

\* fuzzyFilter searches m.projects.
Searched(all, shown) == all

\* fuzzyFilter: the names of the projects searched, and the projects at
\* the indexes of the results, in the order of the results.
NamesOf(list) == [k \in 1..Len(list) |-> list[k].Name]

FuzzyFilter(list, results) == [k \in 1..Len(results) |-> list[results[k]]]

\* A variant that keeps the cursor where it is.
KeepCursor(cursor, length) == cursor

\* `if m.cursor >= len(m.filtered) { m.cursor = 0 }`
ResetCursor(cursor, length) == IF cursor >= length THEN 0 ELSE cursor

\* A variant of Enter that takes the first item on display.
FirstItem(list, cursor) == list[1]

\* m.filtered[m.cursor]; the cursor counts from 0.
Under(list, cursor) == list[cursor + 1]

\* initialModel(projects); results is the last answer of fuzzy.Find.
InitialModel(list) ==
    [projects |-> list, filtered |-> list, cursor |-> 0, query |-> <<>>,
     selected |-> NoChoice, quitting |-> FALSE, height |-> 0,
     results |-> <<>>]

Handled(key) ==
    last' = [key |-> key, cursor |-> picker.cursor, query |-> picker.query]

\* case tea.WindowSizeMsg
Heights == {24}

WindowSize ==
    /\ ~picker.quitting
    /\ \E h \in Heights : picker' = [picker EXCEPT !.height = h]
    /\ Handled("resize")
    /\ UNCHANGED given
    /\ UNCHANGED <<cacheVars, rankVars, sessVars, mainVars, nameVars, shareVars>>

\* case "ctrl+c", "esc"
KeyQuit ==
    /\ ~picker.quitting
    /\ picker' = [picker EXCEPT !.quitting = TRUE]
    /\ \E key \in HandledBy("quit") : Handled(key)
    /\ UNCHANGED given
    /\ UNCHANGED <<cacheVars, rankVars, sessVars, mainVars, nameVars, shareVars>>

\* case "enter"
KeyEnter ==
    /\ ~picker.quitting
    /\ IF Len(picker.filtered) > 0 /\ picker.cursor < Len(picker.filtered)
       THEN picker' = [picker EXCEPT
                        !.selected = Chosen(Under(picker.filtered, picker.cursor)),
                        !.quitting = TRUE]
       ELSE UNCHANGED picker
    /\ \E key \in HandledBy("enter") : Handled(key)
    /\ UNCHANGED given
    /\ UNCHANGED <<cacheVars, rankVars, sessVars, mainVars, nameVars, shareVars>>

\* case "up", "k"
KeyUp ==
    /\ ~picker.quitting
    /\ picker' = [picker EXCEPT !.cursor = IF @ > 0 THEN @ - 1 ELSE @]
    /\ \E key \in HandledBy("up") : Handled(key)
    /\ UNCHANGED given
    /\ UNCHANGED <<cacheVars, rankVars, sessVars, mainVars, nameVars, shareVars>>

\* case "down", "j"
KeyDown ==
    /\ ~picker.quitting
    /\ picker' = [picker EXCEPT
                    !.cursor = IF @ < Len(picker.filtered) - 1 THEN @ + 1 ELSE @]
    /\ \E key \in HandledBy("down") : Handled(key)
    /\ UNCHANGED given
    /\ UNCHANGED <<cacheVars, rankVars, sessVars, mainVars, nameVars, shareVars>>

\* default: the key goes to the text input, the list is filtered again and
\* the cursor is reset when it is past the end.
KeyOther ==
    /\ ~picker.quitting
    /\ \E key \in HandledBy("default") :
        /\ key \in Printable => Len(picker.query) < MaxQuery
        /\ Handled(key)
        /\ LET query == TextInput(picker.query, key)
               list == Searched(picker.projects, picker.filtered)
           IN  \E results \in IF query = <<>> THEN {<<>>}
                              ELSE FuzzyFind(query, NamesOf(list)) :
                LET shown == IF query = <<>> THEN picker.projects
                             ELSE FuzzyFilter(list, results)
                IN  picker' = [picker EXCEPT
                                !.query = query,
                                !.results = results,
                                !.filtered = shown,
                                !.cursor = ResetCursor(picker.cursor, Len(shown))]
    /\ UNCHANGED given
    /\ UNCHANGED <<cacheVars, rankVars, sessVars, mainVars, nameVars, shareVars>>

-----------------------------------------------------------------------------
(* main.go, runInteractive: two sesh processes record their projects in    *)
(* the one recent.json, each by Load, Add and Save, with no lock           *)

Procs == {1, 2}

\* A process before its Load; seen is the saves written before it loaded
\* and loaded the list it loaded.
Recording(project) ==
    [step |-> "load", project |-> project, recent |-> NotLoaded,
     seen |-> <<>>, loaded |-> <<>>]

\* recent, _ := cache.Load(); `if recent != nil`
SharedLoad(w) ==
    /\ writers[w].step = "load"
    /\ writers' = [writers EXCEPT
                    ![w].recent = LoadResult(file).recent,
                    ![w].loaded = LoadResult(file).recent.Projects,
                    ![w].seen = saves,
                    ![w].step = IF LoadResult(file).recent.state = "ok"
                                THEN "add" ELSE "done"]
    /\ UNCHANGED <<file, saves>>
    /\ UNCHANGED <<recent, loadErr, hist, nops>>
    /\ UNCHANGED <<rankVars, sessVars, mainVars, nameVars, pickVars>>

\* recent.Add(selectedProject.Name, selectedProject.Path)
SharedAdd(w) ==
    /\ writers[w].step = "add"
    /\ \E now \in Times :
        writers' = [writers EXCEPT
                    ![w].recent = Cache(AddProject(@.Projects,
                                                   Base(writers[w].project),
                                                   writers[w].project, now)),
                    ![w].step = "save"]
    /\ UNCHANGED <<file, saves>>
    /\ UNCHANGED <<recent, loadErr, hist, nops>>
    /\ UNCHANGED <<rankVars, sessVars, mainVars, nameVars, pickVars>>

\* _ = recent.Save()
SharedSave(w) ==
    /\ writers[w].step = "save"
    /\ \E outcome \in SaveOutcomes(file) :
        /\ file' = SaveResult(file, writers[w].recent.Projects, outcome)
        /\ saves' = IF outcome = "written" THEN Append(saves, w) ELSE saves
    /\ writers' = [writers EXCEPT ![w].step = "done"]
    /\ UNCHANGED <<recent, loadErr, hist, nops>>
    /\ UNCHANGED <<rankVars, sessVars, mainVars, nameVars, pickVars>>

-----------------------------------------------------------------------------
(* The specifications                                                      *)

InitCacheAt(f) ==
    /\ file = f
    /\ recent = NotLoaded
    /\ loadErr = FALSE
    /\ hist = [op |-> "init", path |-> "", before |-> <<>>, failed |-> FALSE]
    /\ nops = 0

NoRanking ==
    /\ oracle = [kind |-> "missing", lines |-> <<>>]
    /\ ranked = <<>>

NoSessions ==
    /\ tmuxInstalled = TRUE
    /\ sessions = [n \in SessionNames |-> NoSession]
    /\ clients = [c \in Clients |-> [attached |-> FALSE, session |-> <<>>]]
    /\ pc = [i \in Inv |-> "idle"]
    /\ inv = [i \in Inv |-> Idle]
    /\ started = <<>>
    /\ faults = 0

NoMain ==
    /\ args = [entry |-> "none", name |-> <<>>]
    /\ env = [inTmux |-> FALSE, target |-> ""]
    /\ step = "exit"
    /\ offered = <<>>
    /\ selected = NoChoice
    /\ trace = <<>>
    /\ visits = <<>>
    /\ result = NoResult

NoNames ==
    /\ rawName = <<>>
    /\ cleanName = NotSanitized
    /\ cleanTwice = NotSanitized

NoPicker ==
    /\ given = <<>>
    /\ picker = InitialModel(<<>>)
    /\ last = [key |-> "none", cursor |-> 0, query |-> <<>>]

NoWriters ==
    /\ writers = <<>>
    /\ saves = <<>>

Elsewhere == NoNames /\ NoPicker /\ NoWriters

InitCache == Elsewhere /\ NoRanking /\ NoSessions /\ NoMain /\ \E f \in FileContents : InitCacheAt(f)

LoadAny == Load(MaxOps)
AddAny == Add(MaxOps)
SaveAny == Save(MaxOps)

NextCache == LoadAny \/ AddAny \/ SaveAny

SpecCache == InitCache /\ [][NextCache]_vars

\* The cache as the program meets it on first use: no recent.json yet.
InitFresh == Elsewhere /\ NoRanking /\ NoSessions /\ NoMain /\ InitCacheAt(NoFile)

LoadFresh == Load(MaxFreshOps)
AddFresh == Add(MaxFreshOps)
SaveFresh == Save(MaxFreshOps)

NextFresh == LoadFresh \/ AddFresh \/ SaveFresh

SpecFresh == InitFresh /\ [][NextFresh]_vars

\* For the ranking only the order and the paths of the cache matter: the
\* entries of recent.json all carry the same time.  The cache can name a
\* path that is no candidate.
RankEntries == { RecentProject(Base(p), p, 1) : p \in Paths }

InitRank ==
    /\ Elsewhere
    /\ NoSessions
    /\ NoMain
    /\ \E f \in FilesOver(RankEntries) : InitCacheAt(f)
    /\ oracle \in Oracles
    /\ ranked = <<>>

NextRank == Rank

SpecRank == InitRank /\ [][NextRank]_vars

NoCache == InitCacheAt(NoFile)

InitSession ==
    /\ Elsewhere
    /\ NoCache
    /\ NoRanking
    /\ NoMain
    /\ tmuxInstalled \in BOOLEAN
    /\ sessions = [n \in SessionNames |-> NoSession]
    /\ clients = [c \in Clients |-> [attached |-> FALSE, session |-> <<>>]]
    /\ pc = [i \in Inv |-> "idle"]
    /\ inv = [i \in Inv |-> Idle]
    /\ started = <<>>
    /\ faults = 0

NextSession ==
    \E i \in Inv :
        \/ Call(i)
        \/ LookPath(i)
        \/ SessionExists(i)
        \/ CreateNewSession(i)
        \/ SendNvim(i)
        \/ CreateOpencodeWindow(i)
        \/ SendOpencode(i)
        \/ CreateZshWindow(i)
        \/ SelectNeovim(i)
        \/ SwitchSession(i)
        \/ AttachSession(i)

SpecSession == InitSession /\ [][NextSession]_vars

\* One sesh process from its command line to its exit: the picker, `sesh
\* connect <name>` or `sesh switch`, against a tmux server that has some
\* sessions already.
ReadySession(dir) ==
    [exists |-> TRUE, windows |-> <<"neovim", "opencode", "zsh">>, active |-> 1,
     sent |-> <<[window |-> "neovim", keys |-> "nvim ."],
                [window |-> "opencode", keys |-> "opencode --port 0 ."]>>,
     dir |-> dir, born |-> 1]

CommandLines ==
    {[entry |-> "interactive", name |-> <<>>], [entry |-> "switch", name |-> <<>>]}
        \cup { [entry |-> "connect", name |-> n] : n \in Names }

MainFiles ==
    {NoFile, NoPath, UnreadableFile,
     JsonFile(<<RecentProject(Base("/w/a"), "/w/a", 1)>>)}

MainOracles == {OracleMissing, OracleOutput(<<ScoreLine(5, "/w/a")>>)}

InitMain ==
    /\ Elsewhere
    /\ \E f \in MainFiles : InitCacheAt(f)
    /\ oracle \in MainOracles
    /\ ranked = <<>>
    /\ tmuxInstalled \in BOOLEAN
    /\ sessions \in [SessionNames -> {NoSession, ReadySession("/w")}]
    /\ clients = [c \in Clients |-> [attached |-> FALSE, session |-> <<>>]]
    /\ pc = [i \in Inv |-> "idle"]
    /\ inv = [i \in Inv |-> Idle]
    /\ started = <<>>
    /\ faults = 0
    /\ args \in CommandLines
    /\ env \in [inTmux : BOOLEAN, target : {"", LauncherClient}]
    /\ step = IF args.entry = "switch" THEN "list" ELSE "find"
    /\ offered = <<>>
    /\ selected = NoChoice
    /\ trace = <<>>
    /\ visits = <<>>
    /\ result = NoResult

NextMain ==
    \/ FindGitProjects
    \/ ResolveName
    \/ ListSessions
    \/ SelectProject
    \/ RecordLoad
    \/ RecordAdd
    \/ RecordSave
    \/ ZoxideAdd
    \/ Reconcile
    \/ SwitchSelected
    \/ LookPath(Self)
    \/ SessionExists(Self)
    \/ CreateNewSession(Self)
    \/ SendNvim(Self)
    \/ CreateOpencodeWindow(Self)
    \/ SendOpencode(Self)
    \/ CreateZshWindow(Self)
    \/ SelectNeovim(Self)
    \/ SwitchSession(Self)
    \/ AttachSession(Self)
    \/ Finish

SpecMain == InitMain /\ [][NextMain]_vars

\* SanitizeSessionName over every name of up to MaxNameLen bytes of
\* "A", "a", "0", "_", "-", " " and "!", and over "My Project!".
NameBytes == {65, 97, 48, 95, 45, 32, 33}

MyProject == <<77, 121, 32, 80, 114, 111, 106, 101, 99, 116, 33>>

ProjectNames == SeqsUpTo(NameBytes, MaxNameLen) \cup {MyProject}

InitSanitize ==
    /\ NoPicker
    /\ NoWriters
    /\ NoCache
    /\ NoRanking
    /\ NoSessions
    /\ NoMain
    /\ rawName \in ProjectNames
    /\ cleanName = NotSanitized
    /\ cleanTwice = NotSanitized

NextSanitize == Sanitize \/ SanitizeAgain

SpecSanitize == InitSanitize /\ [][NextSanitize]_vars

\* The picker over every list of up to MaxPicked different projects, under
\* any sequence of keys and window sizes.
PickerLists ==
    { o \in UNION { [1..n -> Paths] : n \in 1..MaxPicked } :
        \A i, j \in 1..Len(o) : o[i] = o[j] => i = j }

InitPicker ==
    /\ NoNames
    /\ NoWriters
    /\ NoCache
    /\ NoRanking
    /\ NoSessions
    /\ NoMain
    /\ \E o \in PickerLists :
        /\ given = [k \in 1..Len(o) |-> Project(o[k])]
        /\ picker = InitialModel([k \in 1..Len(o) |-> Project(o[k])])
    /\ last = [key |-> "none", cursor |-> 0, query |-> <<>>]

NextPicker == WindowSize \/ KeyQuit \/ KeyEnter \/ KeyUp \/ KeyDown \/ KeyOther

SpecPicker == InitPicker /\ [][NextPicker]_vars

\* Two processes that chose different projects, over a recent.json that is
\* missing, empty or holds one entry.
SharedFiles == {NoFile, JsonFile(<<>>)} \cup { JsonFile(<<e>>) : e \in Entries }

InitShared ==
    /\ NoNames
    /\ NoPicker
    /\ NoRanking
    /\ NoSessions
    /\ NoMain
    /\ \E f \in SharedFiles : InitCacheAt(f)
    /\ \E p \in Paths, q \in Paths :
        /\ p # q
        /\ writers = [w \in Procs |-> Recording(IF w = 1 THEN p ELSE q)]
    /\ saves = <<>>

NextShared == \E w \in Procs : SharedLoad(w) \/ SharedAdd(w) \/ SharedSave(w)

SpecShared == InitShared /\ [][NextShared]_vars

\* runConnect at its three loops, for every ranked list of up to MaxFound of
\* the projects "a", "A", "ab", "a b", "a-b" and "a-bc" and for the names
\* "a", "ab", "a b", "a-b", "a.b", "a-" and "z".
Found(name, path) == [Name |-> name, Path |-> path, Score |-> 0]

ConnectProjects ==
    {Found(<<97>>, "/c/a"), Found(<<65>>, "/d/A"), Found(<<97, 98>>, "/c/ab"),
     Found(<<97, 32, 98>>, "/c/a b"), Found(<<97, 45, 98>>, "/c/a-b"),
     Found(<<97, 45, 98, 99>>, "/c/a-bc")}

ConnectNames ==
    {<<97>>, <<97, 98>>, <<97, 32, 98>>, <<97, 45, 98>>, <<97, 46, 98>>,
     <<97, 45>>, <<122>>}

ConnectLists ==
    { o \in UNION { [1..n -> ConnectProjects] : n \in 1..MaxFound } :
        \A i, j \in 1..Len(o) : o[i] = o[j] => i = j }

InitConnect ==
    /\ Elsewhere
    /\ NoCache
    /\ NoSessions
    /\ oracle = OracleMissing
    /\ ranked \in ConnectLists
    /\ offered = ranked
    /\ args \in { [entry |-> "connect", name |-> n] : n \in ConnectNames }
    /\ env = [inTmux |-> FALSE, target |-> ""]
    /\ step = "resolve"
    /\ selected = NoChoice
    /\ trace = <<"discovery", "ranking">>
    /\ visits = <<>>
    /\ result = NoResult

NextConnect == ResolveName

SpecConnect == InitConnect /\ [][NextConnect]_vars

-----------------------------------------------------------------------------
(* Properties of the recency cache                                         *)

Min(a, b) == IF a < b THEN a ELSE b

PathsOf(projects) == { projects[i].Path : i \in 1..Len(projects) }

NoDuplicatePath(projects) ==
    \A i, j \in 1..Len(projects) : projects[i].Path = projects[j].Path => i = j

\* s is t with some of its elements left out, the others in t's order.
RECURSIVE IsSubsequence(_, _)
IsSubsequence(s, t) ==
    IF s = <<>> THEN TRUE
    ELSE IF t = <<>> THEN FALSE
    ELSE IF Head(s) = Head(t) THEN IsSubsequence(Tail(s), Tail(t))
    ELSE IsSubsequence(s, Tail(t))

StrictlyDescending(projects) ==
    \A i \in 1..(Len(projects) - 1) : projects[i].LastUsed > projects[i + 1].LastUsed

\* C2: after add(n, p) the cache has min(3, previous length + (1 if p was
\* absent else 0)) entries, the entry for p is at the front, the other
\* surviving entries are in their previous relative order, and adding an
\* absent path to a full cache [X, Y, Z] leaves [W, X, Y].
AddFrontBounded ==
    hist.op = "add" =>
        LET before == hist.before
            after == recent.Projects
            absent == hist.path \notin PathsOf(before)
        IN  /\ Len(after) = Min(3, Len(before) + (IF absent THEN 1 ELSE 0))
            /\ after[1].Path = hist.path
            /\ after[1].Name = Base(hist.path)
            /\ IsSubsequence(Tail(after), before)
            /\ (absent /\ Len(before) = 3) => Tail(after) = SubSeq(before, 1, 2)

AddEvictsTail ==
    /\ hist.op = "add"
    /\ Len(hist.before) = 3
    /\ NoDuplicatePath(hist.before)
    /\ hist.path \notin PathsOf(hist.before)
    /\ Len(recent.Projects) = 3
    /\ hist.before[3].Path \notin PathsOf(recent.Projects)

\* C3: whenever a cache is in memory it holds at most 3 entries and they are
\* strictly descending by last_used, whatever recent.json held.
CacheBoundedDescending ==
    recent.state = "ok" =>
        /\ Len(recent.Projects) <= 3
        /\ StrictlyDescending(recent.Projects)

\* C4: starting with no recent.json, no two entries of the cache or of the
\* file it is saved to have the same path, and adding a path that is
\* present moves its entry to the front without adding a second one.
CacheKeyedByPath ==
    /\ NoDuplicatePath(recent.Projects)
    /\ NoDuplicatePath(file.projects)
    /\ (hist.op = "add" /\ hist.path \in PathsOf(hist.before)) =>
            /\ Len(recent.Projects) = Len(hist.before)
            /\ recent.Projects[1].Path = hist.path
            /\ PathsOf(recent.Projects) = PathsOf(hist.before)

ReAddMovesToFront ==
    /\ hist.op = "add"
    /\ Len(hist.before) = 3
    /\ hist.before[3].Path = hist.path
    /\ recent.Projects[1].Path = hist.path
    /\ recent.Projects[2] = hist.before[1]
    /\ recent.Projects[3] = hist.before[2]

\* C5: whatever happens when Load locates, reads or parses recent.json, it
\* returns an empty cache and no error.
LoadNeverFails ==
    (hist.op = "load" /\ file.kind # "json") =>
        /\ recent = Cache(<<>>)
        /\ loadErr = FALSE
-----------------------------------------------------------------------------
(* Properties of the ranking                                               *)

\* The entries of the cache the ranking loads, in order.
LoadedCache == IF file.kind = "json" THEN file.projects ELSE <<>>

SetMax(S) == CHOOSE x \in S : \A y \in S : y <= x

\* The score the oracle gives a path: the one on the last line of the form
\* "<float> <path>" that names it, 0 when there is none.
LinesNaming(path) ==
    { i \in 1..Len(oracle.lines) :
        /\ oracle.lines[i].parts = 2
        /\ oracle.lines[i].numeric
        /\ oracle.lines[i].path = path }

OracleScoreOf(path) ==
    IF oracle.kind = "output" /\ LinesNaming(path) # {}
    THEN oracle.lines[SetMax(LinesNaming(path))].score
    ELSE 0

BonusAt(position) ==
    CASE position = 1 -> 10000
      [] position = 2 -> 9000
      [] position = 3 -> 8000

\* a <= b in byte-wise order: a is a prefix of b, or the first byte they
\* differ in is smaller in a.
NameLeq(a, b) ==
    \/ Len(a) <= Len(b) /\ \A k \in 1..Len(a) : a[k] = b[k]
    \/ \E k \in 1..Min(Len(a), Len(b)) :
        /\ \A m \in 1..(k - 1) : a[m] = b[m]
        /\ a[k] < b[k]

\* C6: every run of the ranking over the same candidates, oracle output and
\* recent.json returns the same sequence.
RankDeterministic == [][ranked # <<>> => ranked' = ranked]_vars

\* C7: in the ranked sequence a project before another has a score at least
\* as high, and with equal scores a name that is not greater byte-wise.
RankedByScoreThenName ==
    \A i, j \in 1..Len(ranked) :
        i < j =>
            /\ ranked[i].Score >= ranked[j].Score
            /\ ranked[i].Score = ranked[j].Score =>
                    NameLeq(ranked[i].Name, ranked[j].Name)

TieBrokenByName ==
    /\ Len(ranked) = 3
    /\ ranked[1].Score > ranked[2].Score
    /\ ranked[2].Score = ranked[3].Score
    /\ ranked[2].Name = <<66>>
    /\ ranked[3].Name = <<97>>

\* C8: each ranked project has score = oracle score of its path + 10000,
\* 9000 or 8000 when the path is at position 1, 2 or 3 of the loaded cache,
\* + 0 when the path is not in the loaded cache.
ScoreIsOraclePlusBonus ==
    \A i \in 1..Len(ranked) :
        /\ \A k \in 1..Min(3, Len(LoadedCache)) :
                LoadedCache[k].Path = ranked[i].Path =>
                    ranked[i].Score = OracleScoreOf(ranked[i].Path) + BonusAt(k)
        /\ ranked[i].Path \notin PathsOf(LoadedCache) =>
                ranked[i].Score = OracleScoreOf(ranked[i].Path)

\* C9: a ranked project whose path is among the first three entries of the
\* loaded cache comes before every ranked project whose path is not in the
\* cache and whose oracle score is below 8000.  (Oracle scores are zoxide
\* ranks, which are not negative.)
RecencyDominates ==
    \A i, j \in 1..Len(ranked) :
        ( /\ ranked[i].Path \in PathsOf(GetTop3(LoadedCache))
          /\ ranked[j].Path \notin PathsOf(LoadedCache)
          /\ OracleScoreOf(ranked[j].Path) < 8000 ) => i < j

RankThreeBeatsUsage ==
    /\ Len(ranked) = 3
    /\ Len(LoadedCache) = 3
    /\ NoDuplicatePath(LoadedCache)
    /\ LoadedCache[3].Path = ranked[2].Path
    /\ ranked[2].Score = 8000
    /\ ranked[3].Score = 7999
    /\ ranked[3].Path \notin PathsOf(LoadedCache)

\* C10: the ranking always runs and returns each candidate exactly once; a
\* missing or failing oracle, and a line that is not "<float> <path>", adds
\* 0 to every score, and so does a cache that is missing, corrupt or fails
\* to load.
RankNeverAborts ==
    ranked # <<>> =>
        /\ Len(ranked) = Cardinality(Candidates)
        /\ { ranked[i].Path : i \in 1..Len(ranked) } = Candidates
        /\ \A i \in 1..Len(ranked) :
            /\ ranked[i].Name = Base(ranked[i].Path)
            /\ (oracle.kind # "output" \/ LinesNaming(ranked[i].Path) = {}) =>
                    ranked[i].Score \in {0, 8000, 9000, 10000}
            /\ file.kind # "json" => ranked[i].Score = OracleScoreOf(ranked[i].Path)

RankedDespiteFailures ==
    /\ ranked # <<>>
    /\ file.kind = "unreadable"
    /\ oracle.kind = "output"
    /\ Len(oracle.lines) = 2
    /\ oracle.lines[1] = ScoreLine(5, "/w/a")
    /\ oracle.lines[2] = BadFloatLine("/w/a")
    /\ \E i \in 1..3 : ranked[i].Path = "/w/a" /\ ranked[i].Score = 5
-----------------------------------------------------------------------------
(* Properties of the session lifecycle                                     *)

Finished(i) == pc[i] = "done"

Succeeded(i) == Finished(i) /\ inv[i].error = "none" /\ inv[i].transfer # "none"

\* Two calls one after the other for the same project, tmux installed and
\* none of its commands failing for a reason of its own.
TwoCallsInARow ==
    /\ Len(started) = 2
    /\ Finished(started[1])
    /\ Finished(started[2])
    /\ inv[started[2]].alone
    /\ inv[started[1]].project = inv[started[2]].project
    /\ tmuxInstalled
    /\ faults = 0

\* C1: of two GetOrCreateSession calls in a row for one project, with no
\* tmux command failing for a reason of its own, only the first enters
\* CreateSession, one session is created, the second finds it existing and
\* goes to attach or switch, and both succeed.
GetOrCreateIdempotent ==
    TwoCallsInARow =>
        /\ inv[started[1]].creates = 1
        /\ inv[started[2]].creates = 0
        /\ inv[started[2]].exists
        /\ sessions[inv[started[1]].name].born = 1
        /\ Succeeded(started[1])
        /\ Succeeded(started[2])

SecondCallReuses ==
    /\ TwoCallsInARow
    /\ inv[started[1]].transfer = "attach"
    /\ inv[started[2]].transfer = "switch"
    /\ Len(sessions[inv[started[2]].name].windows) = 3
-----------------------------------------------------------------------------
(* Properties of one sesh process                                          *)

\* The selector returned no selection: the last thing run() did.
Cancelled ==
    /\ trace # <<>>
    /\ trace[Len(trace)] = "selection"
    /\ selected = NoChoice

Happened(what) == \E k \in 1..Len(trace) : trace[k] = what

\* C11: after the selector returned no selection, run() has returned
\* success and there was no cache load, add or save by the caller, no
\* `zoxide add`, no has-session, no command of CreateSession, no attach and
\* no switch.
CancelChangesNothing ==
    Cancelled =>
        /\ step = "exit"
        /\ result.error = "ok"
        /\ nops = 0
        /\ recent = NotLoaded
        /\ ~Happened("cache add") /\ ~Happened("cache save")
        /\ ~Happened("oracle update")
        /\ visits = <<>>
        /\ ~Happened("reconcile") /\ ~Happened("switch")
        /\ started = <<>>
        /\ pc[Self] = "idle"
        /\ inv[Self] = Idle
        /\ faults = 0
        /\ \A c \in Clients : ~clients[c].attached

CancelledPicker ==
    /\ Cancelled
    /\ args.entry = "interactive"
    /\ file.kind = "json"
    /\ oracle.kind = "output"
    /\ Len(offered) = 3
    /\ step = "exit"

\* C17: every transfer follows the TMUX marker of the process that makes
\* it: switch-client only with TMUX set, attach only with TMUX not set.
TransferFollowsMarker ==
    \A i \in Inv :
        /\ inv[i].transfer = "switch" => inv[i].inTmux
        /\ inv[i].transfer = "attach" => ~inv[i].inTmux

\* C18: the recency cache and the oracle are updated only after the
\* session was reconciled.
UpdateAfterReconcile ==
    \A k \in 1..Len(trace) :
        trace[k] \in {"cache add", "cache save", "oracle update"} =>
            \E m \in 1..(k - 1) : trace[m] = "reconcile"

-----------------------------------------------------------------------------
(* Properties of SanitizeSessionName                                       *)

MyProjectSanitized == <<109, 121, 45, 112, 114, 111, 106, 101, 99, 116>>

\* C19: SanitizeSessionName returns a string for every name, returns its
\* own results unchanged, maps "My Project!" to "my-project" and "" to "".
SanitizeIdempotent ==
    /\ cleanName.set => cleanName.value \in Seq(0..255)
    /\ cleanTwice.set => cleanTwice.value = cleanName.value
    /\ cleanName.set /\ rawName = MyProject => cleanName.value = MyProjectSanitized
    /\ cleanName.set /\ rawName = <<>> => cleanName.value = <<>>

MyProjectTwice ==
    /\ rawName = MyProject
    /\ cleanTwice.set
    /\ cleanTwice.value = MyProjectSanitized

\* The positions of a name that survive: the valid characters and the first
\* character of each maximal run of others.
RunStart(s, k) == ~ValidChar(s[k]) /\ (k = 1 \/ ValidChar(s[k - 1]))

Kept(s) == { k \in 1..Len(s) : ValidChar(s[k]) \/ RunStart(s, k) }

Collapsed(s) ==
    LET pos(j) == CHOOSE k \in Kept(s) :
                    Cardinality({ m \in Kept(s) : m < k }) = j - 1
    IN  [j \in 1..Cardinality(Kept(s)) |->
            IF ValidChar(s[pos(j)]) THEN s[pos(j)] ELSE 45]

Trimmed(t) ==
    LET inner == { k \in 1..Len(t) : t[k] # 45 }
    IN  IF inner = {} THEN <<>>
        ELSE SubSeq(t, CHOOSE k \in inner : \A m \in inner : k <= m,
                       CHOOSE k \in inner : \A m \in inner : m <= k)

Lowered(t) == [k \in 1..Len(t) |-> IF t[k] \in 65..90 THEN t[k] + 32 ELSE t[k]]

LowerValid(c) == c \in 97..122 \/ c \in 48..57 \/ c = 95 \/ c = 45

\* C20: the result is the lowercase of the name with each maximal run of
\* characters outside [a-zA-Z0-9_-] made one hyphen and the hyphens at both
\* ends removed; it has only characters of [a-z0-9_-], no hyphen at either
\* end, and is empty when the name has no valid character.
SanitizeCollapsesRuns ==
    cleanName.set =>
        /\ cleanName.value = Lowered(Trimmed(Collapsed(rawName)))
        /\ \A k \in 1..Len(cleanName.value) : LowerValid(cleanName.value[k])
        /\ cleanName.value # <<>> =>
            /\ cleanName.value[1] # 45
            /\ cleanName.value[Len(cleanName.value)] # 45
        /\ (\A k \in 1..Len(rawName) : ~ValidChar(rawName[k])) =>
            cleanName.value = <<>>

RunCollapsed ==
    /\ rawName = <<33, 65, 32, 33>>
    /\ cleanName = Sanitized(<<97>>)
-----------------------------------------------------------------------------
(* Properties of CreateSession and of the existence query                  *)

CreateOrder ==
    <<"new-session", "send-nvim", "new-opencode", "send-opencode", "new-zsh",
      "select-neovim">>

CreationErrors ==
    <<"failed to create tmux session", "failed to send nvim command",
      "failed to create opencode window", "failed to send opencode command",
      "failed to create zsh window", "failed to select first window">>

IsPrefix(s, t) == Len(s) <= Len(t) /\ SubSeq(t, 1, Len(s)) = s

\* The session as the first k commands of CreateSession leave it: editor
\* window, its command, assistant window, its command, shell window, and
\* the editor window selected.
WindowsAfter(k) ==
    IF k >= 5 THEN <<"neovim", "opencode", "zsh">>
    ELSE IF k >= 3 THEN <<"neovim", "opencode">>
    ELSE <<"neovim">>

SentAfter(k) ==
    IF k >= 4 THEN <<[window |-> "neovim", keys |-> "nvim ."],
                     [window |-> "opencode", keys |-> "opencode --port 0 ."]>>
    ELSE IF k >= 2 THEN <<[window |-> "neovim", keys |-> "nvim ."]>>
    ELSE <<>>

ActiveAfter(k) ==
    IF k = 6 THEN "neovim"
    ELSE IF k = 5 THEN "zsh"
    ELSE IF k >= 3 THEN "opencode"
    ELSE "neovim"

IsAfter(sess, k) ==
    /\ sess.exists
    /\ sess.windows = WindowsAfter(k)
    /\ sess.sent = SentAfter(k)
    /\ sess.windows[sess.active] = ActiveAfter(k)

\* C12: the commands of CreateSession run in the order editor window (and
\* its command), assistant window, its command, shell window, selection of
\* the editor window; the session is at each point what the commands run so
\* far make it, and after all six it has the three windows with the editor
\* window active.
CreateSessionInOrder ==
    \A i \in Inv :
        /\ IsPrefix(inv[i].steps, CreateOrder)
        /\ inv[i].steps # <<>> => IsAfter(sessions[inv[i].name], Len(inv[i].steps))
        /\ Len(inv[i].steps) = 6 =>
            /\ sessions[inv[i].name].windows = <<"neovim", "opencode", "zsh">>
            /\ sessions[inv[i].name].active = 1

CreatedAndFocused ==
    /\ inv[1].steps = CreateOrder
    /\ sessions[inv[1].name].windows = <<"neovim", "opencode", "zsh">>
    /\ sessions[inv[1].name].active = 1
    /\ Len(sessions[inv[1].name].sent) = 2
    /\ inv[1].transfer = "attach"

\* The command of CreateSession whose error the invocation returned, 0 when
\* it returned none of them.
FailedAt(i) ==
    IF \E k \in 1..6 : inv[i].error = CreationErrors[k]
    THEN CHOOSE k \in 1..6 : inv[i].error = CreationErrors[k]
    ELSE 0

\* C13: when command k of CreateSession fails, the invocation returns the
\* error of that command with exactly the k-1 commands before it run, makes
\* no transfer, and the session stays as those commands left it; a later
\* GetOrCreateSession for the name whose query succeeds finds the session,
\* does not enter CreateSession, leaves the session as it is and goes on to
\* attach or switch.
PartialSessionStays ==
    /\ \A i \in Inv :
        FailedAt(i) # 0 =>
            /\ Finished(i)
            /\ inv[i].steps = SubSeq(CreateOrder, 1, FailedAt(i) - 1)
            /\ inv[i].transfer = "none"
            /\ FailedAt(i) >= 2 =>
                IsAfter(sessions[inv[i].name], FailedAt(i) - 1)
    /\ ( /\ Len(started) = 2
         /\ FailedAt(started[1]) >= 2
         /\ inv[started[2]].alone
         /\ inv[started[2]].name = inv[started[1]].name
         /\ inv[started[2]].exit \in {ExitFound, ExitNotFound} )
       => /\ inv[started[2]].exists
          /\ inv[started[2]].creates = 0
          /\ inv[started[2]].steps = <<>>
          /\ FailedAt(started[2]) = 0
          /\ Finished(started[2]) /\ inv[started[2]].error = "none"
                => inv[started[2]].transfer # "none"

PartialSessionReused ==
    /\ Len(started) = 2
    /\ inv[started[1]].error = "failed to create opencode window"
    /\ inv[started[2]].alone
    /\ inv[started[2]].name = inv[started[1]].name
    /\ inv[started[2]].transfer = "attach"
    /\ sessions[inv[started[2]].name].windows = <<"neovim">>

\* Both invocations were told that no session of the name exists, and have
\* ended, with no tmux command failing for a reason of its own.
Raced ==
    /\ \A i \in Inv : Finished(i) /\ inv[i].exit = ExitNotFound
    /\ inv[1].name = inv[2].name
    /\ faults = 0

\* C14: of two invocations that both saw no session of the name, one
\* creates it and transfers, the other fails at new-session with none of
\* its commands run, and the session ends with one editor, one assistant
\* and one shell window and each startup command sent once.
RaceIsBenign ==
    Raced =>
        /\ \E w \in Inv : \E l \in Inv \ {w} :
            /\ Succeeded(w)
            /\ inv[w].steps = CreateOrder
            /\ inv[l].error = CreationErrors[1]
            /\ inv[l].steps = <<>>
        /\ IsAfter(sessions[inv[1].name], 6)
        /\ sessions[inv[1].name].born = 1

RaceLost ==
    /\ Raced
    /\ inv[1].error = "failed to create tmux session"
    /\ inv[2].transfer = "switch"
    /\ inv[1].project # inv[2].project

\* C15: an invocation that lost the race still attaches or switches to the
\* session the winner created.
RaceLoserTransfers ==
    Raced => \A i \in Inv : inv[i].transfer # "none"

\* C16: SessionExists returns false and no error for exit status 1, true
\* for exit status 0 and an error for every other failure; on that error
\* GetOrCreateSession returns it with no command of CreateSession run and
\* no attach or switch.
ExistenceQuery ==
    \A i \in Inv :
        /\ inv[i].exit = ExitNotFound =>
            /\ ~inv[i].exists
            /\ inv[i].error # "error checking session"
            /\ inv[i].creates = 1
        /\ inv[i].exit = ExitFound =>
            /\ inv[i].exists
            /\ inv[i].error # "error checking session"
            /\ inv[i].creates = 0
        /\ inv[i].exit = ExitOther =>
            /\ inv[i].error = "error checking session"
            /\ Finished(i)
            /\ ~inv[i].exists
            /\ inv[i].creates = 0
            /\ inv[i].steps = <<>>
            /\ inv[i].transfer = "none"
        /\ inv[i].error = "error checking session" => inv[i].exit = ExitOther

QueryFailed ==
    /\ inv[1].exit = ExitOther
    /\ Finished(1)
    /\ inv[2].exit = ExitNotFound
    /\ Succeeded(2)
    /\ inv[1].name = inv[2].name
    /\ sessions[inv[1].name].born = 1
-----------------------------------------------------------------------------
(* Properties of run() after a project is chosen                           *)

SaveFailed == hist.op = "save" /\ hist.failed

\* C21: when recent.Save or `zoxide add` failed, run() does not end there:
\* GetOrCreateSession is entered for the chosen project and what run()
\* returns is what GetOrCreateSession returned.
UpdateFailureSwallowed ==
    (SaveFailed \/ Happened("oracle update failed")) =>
        /\ step \in {"zoxide", "reconcile", "session", "exit"}
        /\ result.error \notin
                {"failed to save the cache", "failed to record the visit"}
        /\ step \in {"session", "exit"} =>
            /\ Happened("reconcile")
            /\ inv[Self].project = selected.Path
        /\ step = "exit" =>
            /\ Finished(Self)
            /\ result.error =
                    IF inv[Self].error = "none" THEN "ok" ELSE inv[Self].error

BothUpdatesFailed ==
    /\ SaveFailed
    /\ file.kind = "malformed"
    /\ Happened("oracle update failed")
    /\ step = "exit"
    /\ result.error = "ok"
    /\ inv[Self].transfer = "attach"

\* C23: when no project matches the name, run() returns the not-found error
\* with the name of every project found, and there was no cache load, add
\* or save by the caller, no `zoxide add`, no has-session, no command of
\* CreateSession, no attach and no switch.
NotFoundChangesNothing ==
    result.error = "project not found" =>
        /\ step = "exit"
        /\ ~selected.chosen
        /\ Len(result.listed) = Cardinality(Candidates)
        /\ \A p \in Candidates :
            \E k \in 1..Len(result.listed) :
                result.listed[k] = Base(p) /\ offered[k].Path = p
        /\ nops = 0
        /\ recent = NotLoaded
        /\ visits = <<>>
        /\ ~Happened("cache save") /\ ~Happened("oracle update")
        /\ ~Happened("reconcile")
        /\ started = <<>>
        /\ pc[Self] = "idle"
        /\ inv[Self] = Idle
        /\ faults = 0
        /\ \A c \in Clients : ~clients[c].attached

NotFoundListsAll ==
    /\ result.error = "project not found"
    /\ args = [entry |-> "connect", name |-> <<122>>]
    /\ Len(result.listed) = 3
    /\ file.kind = "json"
    /\ sessions[<<97>>].exists

\* C24: switch-client acts on the client named in SESH_TARGET_CLIENT when
\* that is set and on the client of the process otherwise, shows it the
\* session asked for, and a failure of the command is what the caller gets.
ExpectedClient == IF env.target # "" THEN env.target ELSE AmbientClient

SwitchTargetsClient ==
    /\ inv[Self].transfer = "switch" =>
        /\ clients[ExpectedClient] = [attached |-> TRUE, session |-> inv[Self].name]
        /\ \A c \in Clients \ {ExpectedClient} : ~clients[c].attached
        /\ args.entry = "switch" => inv[Self].name = selected.Name
        /\ args.entry # "switch" =>
                inv[Self].name = SanitizeSessionName(selected.Name)
        /\ step = "exit" => result.error = "ok"
    /\ inv[Self].error = "switch-client failed" =>
        /\ \A c \in Clients : ~clients[c].attached
        /\ inv[Self].transfer = "none"
        /\ step = "exit" => result.error = "switch-client failed"

SwitchedLauncherClient ==
    /\ inv[Self].transfer = "switch"
    /\ env.target = LauncherClient
    /\ env.inTmux
    /\ clients[LauncherClient].attached
    /\ ~clients[AmbientClient].attached
    /\ step = "exit"
-----------------------------------------------------------------------------
(* Properties of GetOrCreateSession across projects and within a call     *)

\* The second call is for another project of the same session name, and
\* began after the first had created the session and returned.
SameNameSecond ==
    /\ Len(started) = 2
    /\ inv[started[2]].alone
    /\ inv[started[1]].project # inv[started[2]].project
    /\ inv[started[1]].name = inv[started[2]].name
    /\ inv[started[1]].steps # <<>>

\* C25: when a session of the first project exists and GetOrCreateSession
\* is called for a second project of another path and the same session
\* name, the second call creates nothing, the session stays the one of the
\* first project, and with no tmux command failing for a reason of its own
\* the call attaches or switches to it and returns no error.
SameNameReuses ==
    SameNameSecond =>
        /\ inv[started[2]].creates = 0
        /\ inv[started[2]].steps = <<>>
        /\ inv[started[2]].exit \in {NotRun, ExitFound, ExitOther}
        /\ sessions[inv[started[2]].name].born = 1
        /\ sessions[inv[started[2]].name].dir = inv[started[1]].project
        /\ Finished(started[2]) /\ faults = 0 => Succeeded(started[2])

SecondProjectInFirstSession ==
    /\ SameNameSecond
    /\ inv[started[1]].project = "/w/a"
    /\ inv[started[2]].project = "/x/a"
    /\ inv[started[2]].transfer = "switch"
    /\ clients[AmbientClient].session = inv[started[2]].name
    /\ sessions[inv[started[2]].name].dir = "/w/a"

InCreateSession(i) == pc[i] \in { CreateOrder[k] : k \in 1..6 }

\* C26: an invocation enters CreateSession only after has-session said
\* that no session of the name exists; it attaches or switches only after
\* has-session said the session exists or after every command of
\* CreateSession ran; and after a failed query or a failed command of
\* CreateSession it returns with no attach and no switch.
LifecycleSafety ==
    \A i \in Inv :
        /\ (InCreateSession(i) \/ inv[i].creates > 0 \/ inv[i].steps # <<>>)
            => inv[i].exit = ExitNotFound /\ inv[i].creates = 1
        /\ ( \/ pc[i] = "transfer"
             \/ inv[i].transfer # "none"
             \/ inv[i].error \in {"exec failed", "switch-client failed"} )
            => \/ inv[i].exit = ExitFound /\ inv[i].steps = <<>>
               \/ inv[i].exit = ExitNotFound /\ inv[i].steps = CreateOrder
        /\ (inv[i].error = "error checking session" \/ FailedAt(i) # 0)
            => /\ Finished(i)
               /\ inv[i].transfer = "none"
               /\ inv[i].steps # CreateOrder

\* One invocation created the session in full and attached; the other
\* began CreateSession, failed at its fourth command and returned.
CreatedThenTransferred ==
    /\ inv[1].exit = ExitNotFound
    /\ inv[1].steps = CreateOrder
    /\ inv[1].transfer = "attach"
    /\ inv[2].exit = ExitNotFound
    /\ FailedAt(2) = 4
    /\ Finished(2)
-----------------------------------------------------------------------------
(* Two processes recording in one recent.json                              *)

\* Both processes loaded, added and saved, and both saves were written.
BothSaved == Len(saves) = 2

-----------------------------------------------------------------------------
(* Name resolution in runConnect                                           *)

\* How a project matches the name given: 1 by its name, letter case
\* ignored; 2 by its session name; 3 by the name being a prefix of its
\* name, letter case ignored; 4 not at all.
Tier(project, name) ==
    IF ToLower(project.Name) = ToLower(name) THEN 1
    ELSE IF SanitizeSessionName(project.Name) = SanitizeSessionName(name) THEN 2
    ELSE IF HasPrefix(ToLower(project.Name), ToLower(name)) THEN 3
    ELSE 4

Resolved == args.entry = "connect" /\ step # "resolve" /\ step # "find"

\* C28: the project connect resolves a name to is one of the best tier that
\* any project matches in (exact name before session name before prefix),
\* and the first of that tier in the ranked order; when no project matches
\* in any tier none is chosen and the name is reported as not found.
ResolvedByTier ==
    Resolved /\ offered # <<>> =>
        IF \A k \in 1..Len(offered) : Tier(offered[k], args.name) = 4
        THEN selected = NoChoice /\ result.error = "project not found"
        ELSE \E k \in 1..Len(offered) :
                /\ selected = Chosen(offered[k])
                /\ Tier(offered[k], args.name) < 4
                /\ \A j \in 1..Len(offered) :
                    /\ Tier(offered[j], args.name) >= Tier(offered[k], args.name)
                    /\ j < k =>
                        Tier(offered[j], args.name) > Tier(offered[k], args.name)

\* The exact match is chosen though a prefix match and a session-name
\* match rank above it.
ExactBeatsHigherRanked ==
    /\ Resolved
    /\ Len(offered) = 3
    /\ Tier(offered[1], args.name) = 3
    /\ Tier(offered[2], args.name) = 2
    /\ Tier(offered[3], args.name) = 1
    /\ selected = Chosen(offered[3])
-----------------------------------------------------------------------------
(* The picker                                                               *)

Ended(key) == picker.quitting /\ last.key = key

\* C22: the picker ends with a chosen project or with none: Esc and Ctrl+C
\* end it with no selection; Enter ends it with the project under the
\* cursor in the filtered list, which is one of the projects passed in;
\* Enter on an empty filtered list selects nothing and the picker goes on.
SelectorContract ==
    /\ picker.selected = NoChoice \/ \E k \in 1..Len(given) :
                                        picker.selected = Chosen(given[k])
    /\ picker.selected # NoChoice => picker.quitting
    /\ Ended("esc") \/ Ended("ctrl+c") => picker.selected = NoChoice
    /\ Ended("enter") =>
        /\ picker.cursor + 1 \in 1..Len(picker.filtered)
        /\ picker.selected = Chosen(picker.filtered[picker.cursor + 1])
    /\ last.key = "enter" /\ picker.filtered = <<>> =>
        ~picker.quitting /\ picker.selected = NoChoice
    /\ picker.quitting => last.key \in {"esc", "ctrl+c", "enter"}

\* Enter chose the second of two projects shown for a query.
EnterChoseSecondShown ==
    /\ Ended("enter")
    /\ picker.query # <<>>
    /\ picker.cursor = 1
    /\ picker.selected = Chosen(picker.filtered[2])
    /\ picker.selected # Chosen(given[2])

\* C29: the cursor is never negative, is below the length of the filtered
\* list when the list is not empty and is 0 when it is empty.
CursorInRange ==
    /\ picker.cursor >= 0
    /\ picker.filtered # <<>> => picker.cursor < Len(picker.filtered)
    /\ picker.filtered = <<>> => picker.cursor = 0

\* Typing shortened the list below the cursor, which went back to 0.
CursorWasReset ==
    /\ last.key \in Typed
    /\ last.cursor = 2
    /\ picker.cursor = 0
    /\ Len(picker.filtered) \in 1..2

\* C30: the picker keeps the projects it was given; with an empty query it
\* shows them in the order given, and with a query it shows the projects of
\* the given list whose names match, each once, in the order of the
\* results of the search.
FilterKeepsCandidates ==
    /\ picker.projects = given
    /\ picker.query = <<>> => picker.filtered = given
    /\ picker.query # <<>> =>
        /\ Len(picker.filtered) = Len(picker.results)
        /\ \A k \in 1..Len(picker.results) :
            /\ picker.results[k] \in 1..Len(given)
            /\ picker.filtered[k] = given[picker.results[k]]
            /\ \A j \in 1..Len(picker.results) :
                picker.results[j] = picker.results[k] => j = k
        /\ \A k \in 1..Len(given) :
            FuzzyMatches(picker.query, given[k].Name)
                <=> \E j \in 1..Len(picker.results) : picker.results[j] = k

\* A character was deleted from a query of two, and the list grew again to
\* the matches of the shorter query among all the projects given.
ListGrewAfterDelete ==
    /\ last.key = "backspace"
    /\ Len(picker.query) = 1
    /\ Len(picker.filtered) = 3
    /\ picker.filtered # given

\* The query after the key last.key, had the text input appended its
\* character.
Appended == Append(last.query, KeyByte(last.key))

\* C31 as stated: every printable character pressed is appended to the
\* query, "j" and "k" among them; the arrows, Enter, Esc and Ctrl+C leave
\* the query as it was.
EveryCharacterTyped ==
    /\ last.key \in Printable => picker.query = Appended
    /\ last.key \in {"up", "down", "left", "enter", "esc", "ctrl+c"}
            => picker.query = last.query

\* C31: a printable character other than "j" and "k" is appended to the
\* query and the list shown is the one searched for the new query; the
\* arrows, "j", "k", Enter, Esc and Ctrl+C leave the query as it was, and
\* "j" and "k" move the cursor as the down and up arrows do.
TypedExceptNavigation ==
    /\ last.key \in Printable \ {"j", "k"} =>
        /\ picker.query = Appended
        /\ picker.filtered = FuzzyFilter(given, picker.results)
    /\ last.key \in {"up", "down", "left", "j", "k", "enter", "esc", "ctrl+c"}
            => picker.query = last.query
    /\ last.key \in {"down", "j"} =>
        picker.cursor = IF last.cursor < Len(picker.filtered) - 1
                        THEN last.cursor + 1 ELSE last.cursor
    /\ last.key \in {"up", "k"} =>
        picker.cursor = IF last.cursor > 0 THEN last.cursor - 1 ELSE 0

\* "j" was pressed after a query was typed: the cursor went down and the
\* query stayed.
LetterMovedCursor ==
    /\ last.key = "j"
    /\ last.query = <<97>>
    /\ picker.query = <<97>>
    /\ last.cursor = 0
    /\ picker.cursor = 1

====
